---- MODULE Spec2Model ----
(***************************************************************************)
(* Watermark_APP: the batch executor (core/batch_worker.py batch_export),  *)
(* the output path allocator (ensure_output_path) and the compositor's     *)
(* observable outcome (core/exporter.py compose_watermark_on_image).       *)
(*                                                                         *)
(* A file name is a sequence of one-character strings; a path is a record  *)
(* [dir, name].  A message is a record [text, names]: its fixed text and   *)
(* the set of file names that occur in it.                                 *)
(*                                                                         *)
(* progress_callback is code of the caller: it is modelled as a call that  *)
(* begins and later returns normally.                                      *)
(***************************************************************************)
EXTENDS Integers, Sequences, FiniteSets, Bags, TLC

\* ------------------------------------------------------------- bounds
MaxTasks == 2
MaxWorkers == 3
ConcurrentWorkers == 5
MaxAllocs == 2
MaxExisting == 2

VARIABLES
    \* ---- inputs of one batch_export call
    tasks,              \* list of task dicts [src_path, dst_path]
    src_files,          \* content of each task's source file on disk
    max_workers,        \* the max_workers argument
    progress_callback,  \* TRUE when a callback is passed
    \* ---- the calling thread
    pc,                 \* position of the calling thread in batch_export
    results,            \* the list `results`
    i,                  \* enumerate counter of the as_completed loop
    cur,                \* the future the loop is handling (0: none)
    exc,                \* an exception is propagating out of the with block
    callbacks,          \* arguments of every progress_callback invocation
    cb_active,          \* progress_callback invocations begun and not returned
    \* ---- ThreadPoolExecutor
    futures,            \* state of each task's future
    outcome,            \* what each finished future holds
    work_queue,         \* executor work queue; 0 is the None wake-up item
    num_threads,        \* worker threads started
    idle_semaphore,     \* executor._idle_semaphore
    exited,             \* worker threads that have returned
    \* ---- as_completed
    finished,           \* futures found finished when iteration began, not yet yielded
    waiter,             \* waiter.finished_futures: later completions, in order
    waiting,            \* TRUE once the as_completed waiter is installed
    \* ---- history
    completed,          \* task indices in the order their futures finished
    yielded,            \* task indices in the order as_completed yielded them
    early,              \* the futures found finished when iteration began
    compose_calls,      \* for each task, the thread of every compose call made for it
    \* ---- two calls on the same task list
    call,               \* number of the batch_export call in progress
    first,              \* what the first call returned and reported
    \* ---- path allocation
    allocs,             \* every ensure_output_path call made, with its job
    \* ---- file system
    fs,                 \* set of existing paths
    \* ---- one compose_watermark_on_image request, made one or more times
    request,            \* arguments: anchor, output_format, resize_to, dst_path
    source,             \* size of the decoded source image
    layer,              \* size of watermark_img
    composed,           \* what each call made so far did
    \* ---- one create_text_watermark_image call
    style,              \* arguments: text, opacity, shadow_blur, bold, italic, ...
    rpc,                \* position in create_text_watermark_image
    fill_color,         \* alpha of fill_color (-1: not yet computed)
    ops,                \* drawing operations performed so far, in order
    \* ---- TemplateManager
    templates,          \* self.templates
    last_used,          \* self.last_used
    template_file,      \* content of TEMPLATE_FILE, or NoFile
    last_call,          \* the last TemplateManager call and what it returned
    \* ---- one ExportWorker
    worker_tasks,       \* self.tasks
    run_pc,             \* position of the thread in run
    run_i,              \* number of tasks the for loop has taken
    done,               \* run's local done
    signals,            \* the signals the worker has emitted, in order
    \* ---- MainWindow (export part)
    handled,            \* number of the worker's signals the window has handled
    current_index,      \* self.current_index
    output_dir,         \* self.output_dir
    ui,                 \* what the export widgets hold: prefix, suffix, format
    export_btn,         \* self.export_btn.isEnabled()
    clicked,            \* how the last on_export ended
    exports             \* the tasks on_export has handed to a worker

vars == <<tasks, src_files, max_workers, progress_callback, pc, results, i, cur,
          exc, callbacks, cb_active, futures, outcome, work_queue, num_threads,
          idle_semaphore, exited, finished, waiter, waiting, completed, yielded,
          early, compose_calls, call, first, allocs, fs, request, source, layer,
          composed, style, rpc, fill_color, ops, templates, last_used,
          template_file, last_call, worker_tasks, run_pc, run_i, done, signals,
          handled, current_index, output_dir, ui, export_btn, clicked, exports>>

composeVars == <<request, source, layer, composed>>
renderVars == <<style, rpc, fill_color, ops>>
templateVars == <<templates, last_used, template_file, last_call>>
exportVars == <<worker_tasks, run_pc, run_i, done, signals>>
guiVars == <<handled, current_index, output_dir, ui, export_btn, clicked, exports>>

NoFile == [exists |-> FALSE]

\* no compose request, no rendering, no template manager
ComposeIdle ==
    /\ request = <<>>
    /\ source = <<>>
    /\ layer = <<>>
    /\ composed = <<>>

RenderIdle ==
    /\ style = <<>>
    /\ rpc = "idle"
    /\ fill_color = -1
    /\ ops = <<>>

\* self.current_index = None
NoIndex == -1

\* no worker, and a window nothing has been done with
ExportIdle ==
    /\ worker_tasks = <<>>
    /\ run_pc = "idle"
    /\ run_i = 0
    /\ done = 0
    /\ signals = <<>>

GuiIdle ==
    /\ handled = 0
    /\ current_index = NoIndex
    /\ output_dir = <<>>
    /\ ui = <<>>
    /\ export_btn = TRUE
    /\ clicked = "none"
    /\ exports = <<>>

TemplateIdle ==
    /\ templates = <<>>
    /\ last_used = "None"
    /\ template_file = NoFile
    /\ last_call = <<>>

\* ------------------------------------------------------------- strings
DigitChars == <<"0", "1", "2", "3", "4", "5", "6", "7", "8", "9">>

\* str(n) of a non-negative integer, as in an f-string
RECURSIVE Str(_)
Str(n) ==
    IF n < 10 THEN <<DigitChars[n + 1]>>
    ELSE Str(n \div 10) \o <<DigitChars[(n % 10) + 1]>>

Path(dir, name) == [dir |-> dir, name |-> name]

\* os.path.basename
Basename(path) == path.name

\* ------------------------------------------------------------- compositor
SourceKinds == {"image", "not_image", "truncated"}

NoMessage == [text |-> "", names |-> {}]

\* compose_watermark_on_image on one task: it returns after writing dst_path,
\* or raises.  Image.open raises on a file that is no image, naming the file;
\* decoding a truncated image raises an error that names no file.
Compose(task, kind) ==
    CASE kind = "image" ->
            [raised |-> FALSE, msg |-> NoMessage, written |-> {task.dst_path}]
      [] kind = "not_image" ->
            [raised |-> TRUE,
             msg |-> [text |-> "cannot identify image file",
                      names |-> {Basename(task.src_path)}],
             written |-> {}]
      [] kind = "truncated" ->
            [raised |-> TRUE,
             msg |-> [text |-> "image file is truncated", names |-> {}],
             written |-> {}]

\* ------------------------------------------------------------- batch_export
N == Len(tasks)
total == Len(tasks)

\* worker without its try/except: what compose raises is left in the future
worker_uncaught(task, kind) ==
    LET r == Compose(task, kind) IN
    IF r.raised
    THEN [kind |-> "exception", success |-> FALSE, msg |-> r.msg]
    ELSE [kind |-> "result", success |-> TRUE, msg |-> NoMessage]

\* worker whose compose fails whenever another compose is in flight
worker_racy(task, kind) ==
    LET r == Compose(task, kind) IN
    IF r.raised \/ Cardinality({t \in 1..Len(tasks) : futures[t] = "running"}) > 1
    THEN [kind |-> "result", success |-> FALSE, msg |-> r.msg]
    ELSE [kind |-> "result", success |-> TRUE, msg |-> NoMessage]

\* worker(task): what the future of the task ends up holding
worker(task, kind) ==
    LET r == Compose(task, kind) IN
    IF r.raised
    THEN [kind |-> "result", success |-> FALSE, msg |-> r.msg]
    ELSE [kind |-> "result", success |-> TRUE, msg |-> NoMessage]

NoOutcome == [kind |-> "none", success |-> FALSE, msg |-> NoMessage]

Running == {t \in 1..N : futures[t] = "running"}
Blocked == num_threads - Cardinality(Running) - exited

SrcName(t) == <<"s">> \o Str(t) \o <<".", "j">>
DstName(t) == <<"w">> \o Str(t) \o <<".", "j">>

Task(t) == [src_path |-> Path("in", SrcName(t)), dst_path |-> Path("out", DstName(t))]

NoFirst == [results |-> <<>>, callbacks |-> 0]

InitBatch(workers) ==
    /\ ComposeIdle
    /\ RenderIdle
    /\ TemplateIdle
    /\ ExportIdle
    /\ GuiIdle
    /\ call = 1
    /\ first = NoFirst
    /\ allocs = <<>>
    /\ \E n \in 0..MaxTasks :
          /\ tasks = [t \in 1..n |-> Task(t)]
          /\ src_files \in [1..n -> SourceKinds]
          /\ futures = [t \in 1..n |-> "none"]
          /\ outcome = [t \in 1..n |-> NoOutcome]
          /\ compose_calls = [t \in 1..n |-> <<>>]
    /\ max_workers \in workers
    /\ progress_callback \in BOOLEAN
    /\ pc = "start"
    /\ results = <<>>
    /\ i = 0
    /\ cur = 0
    /\ exc = FALSE
    /\ callbacks = <<>>
    /\ cb_active = 0
    /\ work_queue = <<>>
    /\ num_threads = 0
    /\ idle_semaphore = 0
    /\ exited = 0
    /\ finished = {}
    /\ waiter = <<>>
    /\ waiting = FALSE
    /\ completed = <<>>
    /\ yielded = <<>>
    /\ early = {}
    /\ fs = {}

Init == InitBatch(1..MaxWorkers)

inputVars == <<tasks, src_files, max_workers, progress_callback>>
callerVars == <<pc, results, i, cur, exc, callbacks, cb_active>>
poolVars == <<futures, outcome, work_queue, num_threads, idle_semaphore, exited>>
iterVars == <<finished, waiter, waiting>>
histVars == <<completed, yielded, early, compose_calls>>
otherVars == <<call, first, allocs, composeVars, renderVars, templateVars,
               exportVars, guiVars>>

\* batch_export is entered: results = [], the executor is created
Call ==
    /\ pc = "start"
    /\ pc' = "submit"
    /\ results' = <<>>
    /\ UNCHANGED <<i, cur, exc, callbacks, cb_active>>
    /\ UNCHANGED <<inputVars, poolVars, iterVars, histVars, otherVars, fs>>

Submitted == Cardinality({t \in 1..N : futures[t] # "none"})

\* futures.append(ex.submit(worker, t)): the work item is queued, and a thread
\* is started unless an idle one is available or max_workers are running
Submit ==
    /\ pc = "submit"
    /\ Submitted < N
    /\ LET t == Submitted + 1 IN
          /\ futures' = [futures EXCEPT ![t] = "pending"]
          /\ work_queue' = Append(work_queue, t)
    /\ IF idle_semaphore > 0
       THEN /\ idle_semaphore' = idle_semaphore - 1
            /\ num_threads' = num_threads
       ELSE /\ idle_semaphore' = idle_semaphore
            /\ num_threads' = IF num_threads < max_workers
                              THEN num_threads + 1 ELSE num_threads
    /\ UNCHANGED <<outcome, exited>>
    /\ UNCHANGED <<inputVars, callerVars, iterVars, histVars, otherVars, fs>>

\* a worker thread takes the next work item and starts worker(task)
WorkerTake ==
    /\ Blocked > 0
    /\ work_queue # <<>>
    /\ Head(work_queue) # 0
    /\ LET t == Head(work_queue) IN
          /\ futures' = [futures EXCEPT ![t] = "running"]
          /\ compose_calls' = [compose_calls EXCEPT ![t] = Append(@, "pool")]
    /\ work_queue' = Tail(work_queue)
    /\ UNCHANGED <<outcome, num_threads, idle_semaphore, exited>>
    /\ UNCHANGED <<completed, yielded, early>>
    /\ UNCHANGED <<inputVars, callerVars, iterVars, otherVars, fs>>

\* variant: a worker whose compose call raised makes the call once more
WorkerFinish_retry(t) ==
    /\ futures[t] = "running"
    /\ futures' = [futures EXCEPT ![t] = "finished"]
    /\ outcome' = [outcome EXCEPT ![t] = worker(tasks[t], src_files[t])]
    /\ fs' = fs \cup Compose(tasks[t], src_files[t]).written
    /\ idle_semaphore' = idle_semaphore + 1
    /\ completed' = Append(completed, t)
    /\ waiter' = IF waiting THEN Append(waiter, t) ELSE waiter
    /\ compose_calls' = IF Compose(tasks[t], src_files[t]).raised
                        THEN [compose_calls EXCEPT ![t] = Append(@, "pool")]
                        ELSE compose_calls
    /\ UNCHANGED <<work_queue, num_threads, exited>>
    /\ UNCHANGED <<finished, waiting, yielded, early>>
    /\ UNCHANGED <<inputVars, callerVars, otherVars>>

\* worker(task) returns: compose has written its file or raised; the future is
\* finished and the as_completed waiter, if installed, is told
WorkerFinish(t) ==
    /\ futures[t] = "running"
    /\ futures' = [futures EXCEPT ![t] = "finished"]
    /\ outcome' = [outcome EXCEPT ![t] = worker(tasks[t], src_files[t])]
    /\ fs' = fs \cup Compose(tasks[t], src_files[t]).written
    /\ idle_semaphore' = idle_semaphore + 1
    /\ completed' = Append(completed, t)
    /\ waiter' = IF waiting THEN Append(waiter, t) ELSE waiter
    /\ UNCHANGED <<work_queue, num_threads, exited>>
    /\ UNCHANGED <<finished, waiting, yielded, early, compose_calls>>
    /\ UNCHANGED <<inputVars, callerVars, otherVars>>

\* a worker thread takes the None item after shutdown, puts it back and returns
WorkerExit ==
    /\ Blocked > 0
    /\ work_queue # <<>>
    /\ Head(work_queue) = 0
    /\ exited' = exited + 1
    /\ UNCHANGED <<futures, outcome, work_queue, num_threads, idle_semaphore>>
    /\ UNCHANGED <<inputVars, callerVars, iterVars, histVars, otherVars, fs>>

\* as_completed(futures) starts: the futures already finished are set aside
\* to be yielded first, the waiter is installed on the others
AsCompletedStart ==
    /\ pc = "submit"
    /\ Submitted = N
    /\ finished' = {t \in 1..N : futures[t] = "finished"}
    /\ early' = {t \in 1..N : futures[t] = "finished"}
    /\ waiter' = <<>>
    /\ waiting' = TRUE
    /\ pc' = "iter"
    /\ UNCHANGED <<results, i, cur, exc, callbacks, cb_active>>
    /\ UNCHANGED <<completed, yielded, compose_calls>>
    /\ UNCHANGED <<inputVars, poolVars, otherVars, fs>>

\* Take that hands the callback to another thread and does not wait for it
Take_async(f) ==
    /\ cur' = f
    /\ yielded' = Append(yielded, f)
    /\ i' = i + 1
    /\ exc' = exc
    /\ callbacks' = IF progress_callback
                    THEN Append(callbacks,
                                [completed |-> i + 1, total |-> total,
                                 success |-> outcome[f].success,
                                 msg |-> outcome[f].msg])
                    ELSE callbacks
    /\ cb_active' = IF progress_callback THEN cb_active + 1 ELSE cb_active
    /\ results' = Append(results, <<outcome[f].success, outcome[f].msg>>)
    /\ pc' = "iter"

\* Take that counts a job only when it succeeded
Take_count_saved(f) ==
    /\ cur' = f
    /\ yielded' = Append(yielded, f)
    /\ i' = IF outcome[f].success THEN i + 1 ELSE i
    /\ exc' = exc
    /\ IF progress_callback
       THEN /\ callbacks' = Append(callbacks,
                                   [completed |-> IF outcome[f].success
                                                  THEN i + 1 ELSE i,
                                    total |-> total,
                                    success |-> outcome[f].success,
                                    msg |-> outcome[f].msg])
            /\ cb_active' = cb_active + 1
            /\ pc' = "in_callback"
            /\ results' = results
       ELSE /\ results' = Append(results, <<outcome[f].success, outcome[f].msg>>)
            /\ pc' = "iter"
            /\ UNCHANGED <<callbacks, cb_active>>

\* the loop takes future f: i is counted and f.result() returns the pair, or
\* re-raises what worker raised; then progress_callback(i, total, success, msg)
\* is called if one was given, else the pair is appended to results
Take(f) ==
    /\ cur' = f
    /\ yielded' = Append(yielded, f)
    /\ i' = i + 1
    /\ IF outcome[f].kind # "result"
       THEN /\ pc' = "exit"
            /\ exc' = TRUE
            /\ UNCHANGED <<results, callbacks, cb_active>>
       ELSE /\ exc' = exc
            /\ IF progress_callback
               THEN /\ callbacks' = Append(callbacks,
                                           [completed |-> i + 1, total |-> total,
                                            success |-> outcome[f].success,
                                            msg |-> outcome[f].msg])
                    /\ cb_active' = cb_active + 1
                    /\ pc' = "in_callback"
                    /\ results' = results
               ELSE /\ results' = Append(results,
                                         <<outcome[f].success, outcome[f].msg>>)
                    /\ pc' = "iter"
                    /\ UNCHANGED <<callbacks, cb_active>>

\* as_completed yields a future found finished when iteration began
NextFinished ==
    /\ pc = "iter"
    /\ \E f \in finished :
          /\ Take(f)
          /\ finished' = finished \ {f}
    /\ UNCHANGED <<waiter, waiting>>
    /\ UNCHANGED <<completed, early, compose_calls>>
    /\ UNCHANGED <<inputVars, poolVars, otherVars, fs>>

\* as_completed yields the next future that finished after iteration began
NextCompleted ==
    /\ pc = "iter"
    /\ finished = {}
    /\ waiter # <<>>
    /\ Take(Head(waiter))
    /\ waiter' = Tail(waiter)
    /\ UNCHANGED <<finished, waiting>>
    /\ UNCHANGED <<completed, early, compose_calls>>
    /\ UNCHANGED <<inputVars, poolVars, otherVars, fs>>

\* CallbackReturn that keeps only the results of the jobs that succeeded
CallbackReturn_saved_only ==
    /\ pc = "in_callback"
    /\ cb_active' = cb_active - 1
    /\ results' = IF outcome[cur].success
                  THEN Append(results, <<outcome[cur].success, outcome[cur].msg>>)
                  ELSE results
    /\ pc' = "iter"
    /\ UNCHANGED <<i, cur, exc, callbacks>>
    /\ UNCHANGED <<inputVars, poolVars, iterVars, histVars, otherVars, fs>>

\* CallbackReturn that puts the newest result first
CallbackReturn_prepend ==
    /\ pc = "in_callback"
    /\ cb_active' = cb_active - 1
    /\ results' = <<<<outcome[cur].success, outcome[cur].msg>>>> \o results
    /\ pc' = "iter"
    /\ UNCHANGED <<i, cur, exc, callbacks>>
    /\ UNCHANGED <<inputVars, poolVars, iterVars, histVars, otherVars, fs>>

\* progress_callback returns, and results.append((success, msg)) follows
CallbackReturn ==
    /\ pc = "in_callback"
    /\ cb_active' = cb_active - 1
    /\ results' = Append(results, <<outcome[cur].success, outcome[cur].msg>>)
    /\ pc' = "iter"
    /\ UNCHANGED <<i, cur, exc, callbacks>>
    /\ UNCHANGED <<inputVars, poolVars, iterVars, histVars, otherVars, fs>>

\* the loop is over (or an exception leaves it): the with block exits,
\* shutdown(wait=True) queues the None wake-up item
Shutdown ==
    /\ IF pc = "iter" THEN Len(yielded) = N ELSE pc = "exit"
    /\ work_queue' = Append(work_queue, 0)
    /\ waiting' = FALSE
    /\ pc' = "join"
    /\ UNCHANGED <<results, i, cur, exc, callbacks, cb_active>>
    /\ UNCHANGED <<futures, outcome, num_threads, idle_semaphore, exited>>
    /\ UNCHANGED <<finished, waiter>>
    /\ UNCHANGED <<inputVars, histVars, otherVars, fs>>

\* Return after shutdown(wait=False): the worker threads are not joined
Return_no_join ==
    /\ pc = "join"
    /\ pc' = IF exc THEN "raised" ELSE "returned"
    /\ UNCHANGED <<results, i, cur, exc, callbacks, cb_active>>
    /\ UNCHANGED <<inputVars, poolVars, iterVars, histVars, otherVars, fs>>

\* every worker thread is joined; batch_export returns results, or the
\* exception leaves it
Return ==
    /\ pc = "join"
    /\ exited = num_threads
    /\ pc' = IF exc THEN "raised" ELSE "returned"
    /\ UNCHANGED <<results, i, cur, exc, callbacks, cb_active>>
    /\ UNCHANGED <<inputVars, poolVars, iterVars, histVars, otherVars, fs>>

\* the caller runs batch_export again on the same task list and the same
\* source files, with ConcurrentWorkers workers
SecondCall ==
    /\ pc = "returned"
    /\ call = 1
    /\ call' = 2
    /\ first' = [results |-> results, callbacks |-> Len(callbacks)]
    /\ max_workers' = ConcurrentWorkers
    /\ pc' = "start"
    /\ results' = <<>>
    /\ i' = 0
    /\ cur' = 0
    /\ exc' = FALSE
    /\ callbacks' = <<>>
    /\ cb_active' = 0
    /\ futures' = [t \in 1..N |-> "none"]
    /\ outcome' = [t \in 1..N |-> NoOutcome]
    /\ compose_calls' = [t \in 1..N |-> <<>>]
    /\ work_queue' = <<>>
    /\ num_threads' = 0
    /\ idle_semaphore' = 0
    /\ exited' = 0
    /\ finished' = {}
    /\ waiter' = <<>>
    /\ waiting' = FALSE
    /\ completed' = <<>>
    /\ yielded' = <<>>
    /\ early' = {}
    /\ UNCHANGED <<tasks, src_files, progress_callback, allocs, fs>>
    /\ UNCHANGED <<composeVars, renderVars, templateVars, exportVars, guiVars>>

BatchStep ==
    \/ Call
    \/ Submit
    \/ WorkerTake
    \/ \E t \in 1..N : WorkerFinish(t)
    \/ WorkerExit
    \/ AsCompletedStart
    \/ NextFinished
    \/ NextCompleted
    \/ CallbackReturn
    \/ Shutdown
    \/ Return

Next == BatchStep

Spec == Init /\ [][Next]_vars

\* one call with max_workers = 1, then one with max_workers = ConcurrentWorkers
InitPair == InitBatch({1})

NextPair == BatchStep \/ SecondCall

SpecPair == InitPair /\ [][NextPair]_vars

\* ------------------------------------------------------------- ensure_output_path
\* str.rfind: the last position of c in s, 0 when there is none
RFind(s, c) ==
    LET at == {k \in 1..Len(s) : s[k] = c} IN
    IF at = {} THEN 0 ELSE CHOOSE k \in at : \A j \in at : j <= k

\* pathlib: a dot splits the name unless it is its first or its last character
SplitsAt(name) ==
    LET k == RFind(name, ".") IN
    IF 1 < k /\ k < Len(name) THEN k ELSE 0

\* pathlib.Path(...).stem
Stem(name) ==
    IF SplitsAt(name) = 0 THEN name ELSE SubSeq(name, 1, SplitsAt(name) - 1)

\* pathlib.Path(...).suffix
Suffix(name) ==
    IF SplitsAt(name) = 0 THEN <<>> ELSE SubSeq(name, SplitsAt(name), Len(name))

\* NewName that leaves the prefix out
NewName_no_prefix(prefix, name, suffix, ext) == name \o suffix \o ext

\* f"{prefix}{name}{suffix}{src.suffix}"
NewName(prefix, name, suffix, ext) == prefix \o name \o suffix \o ext

\* f"{prefix}{name}{suffix}_{i}{src.suffix}"
NumberedName(prefix, name, suffix, n, ext) ==
    prefix \o name \o suffix \o <<"_">> \o Str(n) \o ext

\* the loop written as `if dst.exists()`: the numbered name is not checked
ExistsLoop_if(files, dst, n, out_dir, prefix, name, suffix, ext) ==
    IF dst \in files
    THEN [dst |-> Path(out_dir, NumberedName(prefix, name, suffix, n, ext)),
          i |-> n + 1]
    ELSE [dst |-> dst, i |-> n]

\* the loop `while dst.exists()`, entered with candidate dst and counter n
RECURSIVE ExistsLoop(_, _, _, _, _, _, _, _)
ExistsLoop(files, dst, n, out_dir, prefix, name, suffix, ext) ==
    IF dst \in files
    THEN ExistsLoop(files, Path(out_dir, NumberedName(prefix, name, suffix, n, ext)),
                    n + 1, out_dir, prefix, name, suffix, ext)
    ELSE [dst |-> dst, i |-> n]

\* the state of ensure_output_path at its return statement
EnsureLoopExit(files, src_path, out_dir, prefix, suffix, keep_name) ==
    LET name == IF keep_name THEN Stem(src_path.name) ELSE Stem(src_path.name)
        ext == Suffix(src_path.name)
    IN  ExistsLoop(files, Path(out_dir, NewName(prefix, name, suffix, ext)), 1,
                   out_dir, prefix, name, suffix, ext)

ensure_output_path(files, src_path, out_dir, prefix, suffix, keep_name) ==
    EnsureLoopExit(files, src_path, out_dir, prefix, suffix, keep_name).dst

\* inputs of the allocator
SourceNames == {<<"a", ".", "j">>, <<"a", "_", "1", ".", "j">>, <<".", "a">>}
Prefixes == {<<>>, <<"p">>}
Suffixes == {<<>>, <<"_", "w">>}

\* files the output directory may hold at the start
ExistingFiles ==
    {Path("out", <<"a", ".", "j">>)}
    \cup {Path("out", <<"a", "_">> \o Str(n) \o <<".", "j">>) : n \in 1..MaxExisting}

BatchIdle ==
    /\ tasks = <<>>
    /\ src_files = <<>>
    /\ max_workers = 1
    /\ progress_callback = FALSE
    /\ pc = "idle"
    /\ results = <<>>
    /\ i = 0
    /\ cur = 0
    /\ exc = FALSE
    /\ callbacks = <<>>
    /\ cb_active = 0
    /\ futures = <<>>
    /\ outcome = <<>>
    /\ compose_calls = <<>>
    /\ work_queue = <<>>
    /\ num_threads = 0
    /\ idle_semaphore = 0
    /\ exited = 0
    /\ finished = {}
    /\ waiter = <<>>
    /\ waiting = FALSE
    /\ completed = <<>>
    /\ yielded = <<>>
    /\ early = {}
    /\ call = 1
    /\ first = NoFirst

batchVars == <<inputVars, callerVars, poolVars, iterVars, histVars, call, first>>
allocRest == <<batchVars, composeVars, renderVars, templateVars, exportVars, guiVars>>

InitAlloc ==
    /\ BatchIdle
    /\ ComposeIdle
    /\ RenderIdle
    /\ TemplateIdle
    /\ ExportIdle
    /\ GuiIdle
    /\ allocs = <<>>
    /\ fs \in SUBSET ExistingFiles

\* number of jobs whose file has been saved
Writes == Cardinality({k \in 1..Len(allocs) : allocs[k].written})

\* the job made of one ensure_output_path call: its arguments, the path it got,
\* the directory content the call saw and how many jobs had been saved by then
Job(src_path, out_dir, prefix, suffix, keep_name) ==
    [src_path |-> src_path, out_dir |-> out_dir,
     prefix |-> prefix, suffix |-> suffix,
     dst_path |-> ensure_output_path(fs, src_path, out_dir,
                                     prefix, suffix, keep_name),
     n |-> EnsureLoopExit(fs, src_path, out_dir, prefix,
                          suffix, keep_name).i - 1,
     seen |-> fs, writes |-> Writes, written |-> FALSE, overwrote |-> FALSE]

\* variant: the call creates the file it returns, so the path is reserved
EnsureOutputPath_reserving(src_path, out_dir, prefix, suffix, keep_name) ==
    /\ Len(allocs) < MaxAllocs
    /\ allocs' = Append(allocs, Job(src_path, out_dir, prefix, suffix, keep_name))
    /\ fs' = fs \cup {ensure_output_path(fs, src_path, out_dir, prefix, suffix,
                                         keep_name)}
    /\ UNCHANGED allocRest

\* the caller asks for the destination of one more job; the call only reads
\* the directory
EnsureOutputPath(src_path, out_dir, prefix, suffix, keep_name) ==
    /\ Len(allocs) < MaxAllocs
    /\ allocs' = Append(allocs, Job(src_path, out_dir, prefix, suffix, keep_name))
    /\ fs' = fs
    /\ UNCHANGED allocRest

\* compose_watermark_on_image saves the job's image at its dst_path, whether
\* or not a file is there already
ComposeSave(k) ==
    /\ ~allocs[k].written
    /\ fs' = fs \cup {allocs[k].dst_path}
    /\ allocs' = [allocs EXCEPT ![k].written = TRUE,
                                ![k].overwrote = allocs[k].dst_path \in fs]
    /\ UNCHANGED allocRest

NextAlloc ==
    \/ \E name \in SourceNames, prefix \in Prefixes, suffix \in Suffixes,
          keep_name \in BOOLEAN :
          EnsureOutputPath(Path("in", name), "out", prefix, suffix, keep_name)
    \/ \E k \in 1..Len(allocs) : ComposeSave(k)

SpecAlloc == InitAlloc /\ [][NextAlloc]_vars

\* ------------------------------------------- compose_watermark_on_image
AnchorHalf == 2
MaxSide == 3
MaxLayer == 2
MaxCompose == 2

\* anchors are the multiples of 1/AnchorDen from -1/AnchorDen to 1
AnchorDen == 2 * AnchorHalf
AnchorNums == (-1)..AnchorDen

UpperChars ==
    <<"A", "B", "C", "D", "E", "F", "G", "H", "I", "J", "K", "L", "M", "N", "O", "P", "Q", "R", "S", "T", "U", "V", "W", "X", "Y", "Z">>
LowerChars ==
    <<"a", "b", "c", "d", "e", "f", "g", "h", "i", "j", "k", "l", "m", "n", "o", "p", "q", "r", "s", "t", "u", "v", "w", "x", "y", "z">>

\* str.lower()
LowerChar(c) ==
    IF \E n \in 1..26 : UpperChars[n] = c
    THEN LowerChars[CHOOSE n \in 1..26 : UpperChars[n] = c]
    ELSE c
Lower(str) == [n \in 1..Len(str) |-> LowerChar(str[n])]

OutputFormats ==
    {<<"p", "n", "g">>, <<"j", "p", "e", "g">>, <<"J", "P", "G">>, <<"b", "m", "p">>}
JpegNames == {<<"j", "p", "g">>, <<"j", "p", "e", "g">>}
PngNames == {<<"p", "n", "g">>}

\* resize_to is None (the empty tuple here, false as well) or one size that no
\* source has
ResizeTo == <<MaxSide + 1, 2>>
SrcPath == Path("in", <<"s", ".", "j">>)
OutPath == Path("out", <<"w", ".", "j">>)

Requests ==
    [anchor : AnchorNums \X AnchorNums, output_format : OutputFormats,
     resize_to : {<<>>, ResizeTo}, dst_path : {OutPath, SrcPath}]
Sources ==
    [kind : {"image"}, size : (1..MaxSide) \X (1..MaxSide)]
    \cup [kind : SourceKinds \ {"image"}, size : {<<0, 0>>}]
Layers == [size : (1..MaxLayer) \X (1..MaxLayer)]

\* variant: the centre is rounded to the nearest pixel, halves upwards
Trunc_half_up(n, d) == (2 * n + d) \div (2 * d)

\* int(x) of the float x = n / d: the fraction is dropped, towards zero
Trunc(n, d) == IF n >= 0 THEN n \div d ELSE -((-n) \div d)

\* variant: the layer is moved to lie inside the image
Corner_clamped(f, side, extent) ==
    LET c == Trunc(f * side, AnchorDen) - extent \div 2
    IN  IF c < 0 THEN 0 ELSE IF c + extent > side /\ side >= extent THEN side - extent ELSE c

\* left and top: the centre pixel minus half the layer, half rounded down
Corner(f, side, extent) == Trunc(f * side, AnchorDen) - extent \div 2

\* img.size after the optional resize
ImageSize(req, src) == IF req.resize_to # <<>> THEN req.resize_to ELSE src.size

\* the file format the image is saved in
Encoding(output_format) ==
    IF Lower(output_format) \in JpegNames THEN "JPEG" ELSE "PNG"

\* one call: what it raised, where it put the layer, what it wrote
compose_watermark_on_image(req, src, lay) ==
    IF src.kind # "image"
    THEN [raised |-> TRUE, size |-> <<0, 0>>, left |-> 0, top |-> 0,
          encoding |-> "none", wrote |-> {}, seen |-> src]
    ELSE LET size == ImageSize(req, src)
         IN  [raised |-> FALSE, size |-> size,
              left |-> Corner(req.anchor[1], size[1], lay.size[1]),
              top |-> Corner(req.anchor[2], size[2], lay.size[2]),
              encoding |-> Encoding(req.output_format),
              wrote |-> {req.dst_path}, seen |-> src]

composeRest == <<batchVars, allocs, renderVars, templateVars, exportVars, guiVars>>

InitCompose ==
    /\ BatchIdle
    /\ RenderIdle
    /\ TemplateIdle
    /\ ExportIdle
    /\ GuiIdle
    /\ allocs = <<>>
    /\ fs = {SrcPath}
    /\ request \in Requests
    /\ source \in Sources
    /\ layer \in Layers
    /\ composed = <<>>

\* the request is made once more; a call that saves over its own source leaves
\* the composed image, of the size it had, as the next call's source
ComposeCall ==
    /\ request # <<>>
    /\ Len(composed) < MaxCompose
    /\ LET r == compose_watermark_on_image(request, source, layer)
       IN  /\ composed' = Append(composed, r)
           /\ fs' = fs \cup r.wrote
           /\ source' = IF SrcPath \in r.wrote
                        THEN [kind |-> "image", size |-> r.size]
                        ELSE source
    /\ UNCHANGED <<request, layer, composeRest>>

NextCompose == ComposeCall

SpecCompose == InitCompose /\ [][NextCompose]_vars

\* ------------------------------------------ create_text_watermark_image
MaxBlur == 2
MaxPercent == 100
Opaque == 255

\* whitespace as str.strip() sees it
Blank == {" ", "\t", "\n"}
Texts == {<<>>, <<" ">>, <<"\t", " ">>, <<"a">>, <<" ", "a">>}

\* the arguments: opacity is percent / MaxPercent, as the slider gives it
Styles ==
    [text : Texts, font : {"loads", "missing"}, percent : 0..MaxPercent,
     shadow_blur : 0..MaxBlur, bold : BOOLEAN, italic : BOOLEAN]

\* int(255 * opacity) for opacity = p / 100
Alpha(p) == (Opaque * p) \div MaxPercent

\* int(255 * 0.7), the alpha of the shadow text
ShadowAlpha == (Opaque * 7) \div 10

\* variant: a shadow is drawn whatever the radius
HasShadow_always(blur) == TRUE

\* if shadow_blur > 0
HasShadow(blur) == blur > 0

\* a drawing operation on a layer: arg is the alpha of a text draw or the
\* radius of a blur; from is the layer a composite puts onto its target
Op(op, target, arg) == [op |-> op, target |-> target, from |-> "none", arg |-> arg]
Composite(target, from) ==
    [op |-> "composite", target |-> target, from |-> from, arg |-> 0]

\* the nine offset draws of the bold path, dx outer, dy inner
BoldOffsets ==
    <<<<-1, -1>>, <<-1, 0>>, <<-1, 1>>, <<0, -1>>, <<0, 0>>, <<0, 1>>,
      <<1, -1>>, <<1, 0>>, <<1, 1>>>>

renderRest == <<batchVars, allocs, fs, composeVars, templateVars, exportVars, guiVars>>

InitRender ==
    /\ BatchIdle
    /\ ComposeIdle
    /\ TemplateIdle
    /\ ExportIdle
    /\ GuiIdle
    /\ allocs = <<>>
    /\ fs = {}
    /\ style \in Styles
    /\ rpc = "font"
    /\ fill_color = -1
    /\ ops = <<>>

\* ImageFont.truetype opens the font file, or raises
LoadFont ==
    /\ rpc = "font"
    /\ rpc' = IF style.font = "loads" THEN "canvas" ELSE "raised"
    /\ UNCHANGED <<style, fill_color, ops, renderRest>>

\* the text is measured, the canvas created and fill_color computed
NewCanvas ==
    /\ rpc = "canvas"
    /\ ops' = Append(ops, Op("new", "canvas", 0))
    /\ fill_color' = Alpha(style.percent)
    /\ rpc' = "shadow"
    /\ UNCHANGED <<style, renderRest>>

\* the shadow: its own layer, the text on it, the blur, and onto the canvas
Shadow ==
    /\ rpc = "shadow"
    /\ HasShadow(style.shadow_blur)
    /\ ops' = ops \o <<Op("new", "shadow_layer", 0),
                       Op("text", "shadow_layer", ShadowAlpha),
                       Op("blur", "shadow_layer", style.shadow_blur),
                       Composite("canvas", "shadow_layer")>>
    /\ rpc' = "glyph"
    /\ UNCHANGED <<style, fill_color, renderRest>>

NoShadow ==
    /\ rpc = "shadow"
    /\ ~HasShadow(style.shadow_blur)
    /\ rpc' = "glyph"
    /\ UNCHANGED <<style, fill_color, ops, renderRest>>

\* neither bold nor italic: the text goes on the canvas
DirectText ==
    /\ rpc = "glyph"
    /\ ~(style.bold \/ style.italic)
    /\ ops' = Append(ops, Op("text", "canvas", fill_color))
    /\ rpc' = "return"
    /\ UNCHANGED <<style, fill_color, renderRest>>

\* bold or italic: the text goes on a temporary layer
TempLayer ==
    /\ rpc = "glyph"
    /\ style.bold \/ style.italic
    /\ ops' = ops \o <<Op("new", "temp_layer", 0),
                       Op("text", "temp_layer", fill_color)>>
    /\ rpc' = "bold"
    /\ UNCHANGED <<style, fill_color, renderRest>>

\* bold: nine draws on a layer of their own, put onto the temporary layer
Bold ==
    /\ rpc = "bold"
    /\ ops' = IF style.bold
              THEN ops \o <<Op("new", "bold_layer", 0)>>
                       \o [n \in 1..Len(BoldOffsets) |-> Op("text", "bold_layer", fill_color)]
                       \o <<Composite("temp_layer", "bold_layer")>>
              ELSE ops
    /\ rpc' = "italic"
    /\ UNCHANGED <<style, fill_color, renderRest>>

\* italic: the temporary layer is sheared and brought back to its size
Italic ==
    /\ rpc = "italic"
    /\ ops' = IF style.italic
              THEN ops \o <<Op("transform", "temp_layer", 0),
                            Op("resize", "temp_layer", 0)>>
              ELSE ops
    /\ rpc' = "temp"
    /\ UNCHANGED <<style, fill_color, renderRest>>

\* the temporary layer is put onto the canvas
CompositeTemp ==
    /\ rpc = "temp"
    /\ ops' = Append(ops, Composite("canvas", "temp_layer"))
    /\ rpc' = "return"
    /\ UNCHANGED <<style, fill_color, renderRest>>

\* return canvas
ReturnCanvas ==
    /\ rpc = "return"
    /\ rpc' = "done"
    /\ UNCHANGED <<style, fill_color, ops, renderRest>>

NextRender ==
    \/ LoadFont
    \/ NewCanvas
    \/ Shadow
    \/ NoShadow
    \/ DirectText
    \/ TempLayer
    \/ Bold
    \/ Italic
    \/ CompositeTemp
    \/ ReturnCanvas

SpecRender == InitRender /\ [][NextRender]_vars

\* --------------------------------------------------------- TemplateManager
MaxNames == 2

\* the name of the built-in template (a Chinese string in the source)
DefaultName == "default"
TemplateNames == <<"t1", "t2", "t3", "t4">>
UserNames == {TemplateNames[n] : n \in 1..MaxNames}
Names == {DefaultName} \cup UserNames

\* Python's None, for last_used
None == "None"

\* a colour is a Python list, or the tuple QColor.getRgb() returns
Colour(kind, rgba) == [kind |-> kind, rgba |-> rgba]

\* the settings of the built-in template (abridged to text, opacity in
\* percent and colour; the other keys are JSON scalars)
DefaultSettings ==
    [text |-> "copyright", opacity |-> 80,
     color |-> Colour("list", <<255, 255, 255, 200>>)]

\* collect_current_settings: what the window holds, the colour a tuple
CurrentSettings ==
    [text : {"a"}, opacity : {0, 60},
     color : {Colour("tuple", <<255, 255, 255, 255>>)}]

\* json.dump followed by json.load: a tuple comes back as a list
JsonValue(settings) == [settings EXCEPT !.color.kind = "list"]

\* the content json.dump writes for the manager m
JsonDump(m) ==
    [exists |-> TRUE,
     templates |-> [n \in DOMAIN m.templates |-> JsonValue(m.templates[n])],
     last_used |-> m.last_used]

\* the manager: its two attributes and the file it keeps
Manager == [templates |-> templates, last_used |-> last_used, file |-> template_file]

Constructed == last_call # <<>>

save_templates(m) == [m EXCEPT !.file = JsonDump(m)]

load_templates(m) ==
    IF m.file.exists
    THEN [m EXCEPT !.templates = m.file.templates, !.last_used = m.file.last_used]
    ELSE save_templates([m EXCEPT !.templates = [n \in {DefaultName} |-> DefaultSettings],
                                  !.last_used = DefaultName])

\* self.templates[name] = settings
Put(dict, name, settings) ==
    [n \in DOMAIN dict \cup {name} |-> IF n = name THEN settings ELSE dict[n]]

\* del self.templates[name]
Del(dict, name) == [n \in DOMAIN dict \ {name} |-> dict[n]]

save_template(m, name, settings) ==
    save_templates([m EXCEPT !.templates = Put(@, name, settings),
                             !.last_used = name])

\* variant: last_used is set and not written to the file
load_template_unsaved(m, name) ==
    IF name \in DOMAIN m.templates
    THEN [after |-> [m EXCEPT !.last_used = name], ret |-> {m.templates[name]}]
    ELSE [after |-> m, ret |-> {}]

\* the manager after the call and what the call returns: the settings, or
\* nothing (None) for a name that is no template
load_template(m, name) ==
    IF name \in DOMAIN m.templates
    THEN [after |-> save_templates([m EXCEPT !.last_used = name]),
          ret |-> {m.templates[name]}]
    ELSE [after |-> m, ret |-> {}]

\* variant: last_used is left on the deleted template
delete_template_keeps_last_used(m, name) ==
    IF name \in DOMAIN m.templates
    THEN save_templates([m EXCEPT !.templates = Del(@, name)])
    ELSE m

delete_template(m, name) ==
    IF name \in DOMAIN m.templates
    THEN save_templates([m EXCEPT !.templates = Del(@, name),
                                  !.last_used = IF m.last_used = name
                                                THEN DefaultName ELSE m.last_used])
    ELSE m

templateRest == <<batchVars, allocs, fs, composeVars, renderVars, exportVars, guiVars>>

\* no manager yet and no template file
InitTemplates ==
    /\ BatchIdle
    /\ ComposeIdle
    /\ RenderIdle
    /\ TemplateIdle
    /\ ExportIdle
    /\ GuiIdle
    /\ allocs = <<>>
    /\ fs = {}

\* the manager becomes m
Becomes(m) ==
    /\ templates' = m.templates
    /\ last_used' = m.last_used
    /\ template_file' = m.file

\* the call just made: whether its name was a template, what it returned
Called(op, name, known, ret) == [op |-> op, name |-> name, known |-> known, ret |-> ret]

\* TemplateManager(): at program start, over the file the last run left
Construct ==
    /\ Becomes(load_templates([templates |-> <<>>, last_used |-> None,
                               file |-> template_file]))
    /\ last_call' = Called("__init__", None, template_file.exists, {})
    /\ UNCHANGED templateRest

SaveTemplate(name, settings) ==
    /\ Constructed
    /\ Becomes(save_template(Manager, name, settings))
    /\ last_call' = Called("save_template", name, name \in DOMAIN templates, {})
    /\ UNCHANGED templateRest

LoadTemplate(name) ==
    /\ Constructed
    /\ Becomes(load_template(Manager, name).after)
    /\ last_call' = Called("load_template", name, name \in DOMAIN templates,
                           load_template(Manager, name).ret)
    /\ UNCHANGED templateRest

\* delete_template, called for every name but the built-in one
DeleteTemplate(name) ==
    /\ Constructed
    /\ name # DefaultName
    /\ Becomes(delete_template(Manager, name))
    /\ last_call' = Called("delete_template", name, name \in DOMAIN templates, {})
    /\ UNCHANGED templateRest

NextTemplates ==
    \/ Construct
    \/ \E name \in Names, settings \in CurrentSettings : SaveTemplate(name, settings)
    \/ \E name \in Names : LoadTemplate(name)
    \/ \E name \in Names : DeleteTemplate(name)

SpecTemplates == InitTemplates /\ [][NextTemplates]_vars

\* ------------------------------------------------------- paths as strings
\* str.split("/") of a path
RECURSIVE SplitPath(_)
SplitPath(str) ==
    LET at == {k \in 1..Len(str) : str[k] = "/"} IN
    IF at = {} THEN <<str>>
    ELSE LET k == CHOOSE k \in at : \A j \in at : k <= j
         IN  <<SubSeq(str, 1, k - 1)>> \o SplitPath(SubSeq(str, k + 1, Len(str)))

\* the one symbolic link of the file system: /l is another name of /p
LinkName == <<<<"l">>>>
LinkTarget == <<<<"p">>>>

\* the components of an absolute path taken one by one: empty and "." ones
\* are dropped, ".." drops the component before it; a file system lookup
\* (follow) goes through the link, the text operations of os.path do not
RECURSIVE Walk(_, _, _)
Walk(comps, at, follow) ==
    IF comps = <<>> THEN at
    ELSE LET c == Head(comps)
             to == IF c = <<>> \/ c = <<".">> THEN at
                   ELSE IF c = <<".", ".">>
                        THEN IF at = <<>> THEN at ELSE SubSeq(at, 1, Len(at) - 1)
                        ELSE Append(at, c)
         IN  Walk(Tail(comps), IF follow /\ to = LinkName THEN LinkTarget ELSE to, follow)

\* os.path.abspath of an absolute path: normpath, text only
Abspath(str) == Walk(SplitPath(str), <<>>, FALSE)

\* the place in the file system a path leads to
RealPath(str) == Walk(SplitPath(str), <<>>, TRUE)

\* str(Path(p).parent) and Path(p).name of a path with a directory part
ParentOf(str) == SubSeq(str, 1, RFind(str, "/") - 1)
NameOf(str) == SubSeq(str, RFind(str, "/") + 1, Len(str))

\* os.path.join(dir, name)
OsJoin(dir, name) ==
    IF name # <<>> /\ name[1] = "/" THEN name ELSE dir \o <<"/">> \o name

\* ------------------------------------------------------------ ExportWorker
MaxExportTasks == 3

\* the task list of a worker made outside the window: task t reads /p/<t>.j,
\* a file of kind kinds[t], and writes /e/<t>.png
WorkerTask(t, kind) ==
    [src_path |-> <<"/", "p", "/">> \o Str(t) \o <<".", "j">>,
     dst_path |-> <<"/", "e", "/">> \o Str(t) \o <<".", "p", "n", "g">>,
     src_file |-> kind]

\* what compose_watermark_on_image does on the task
RunCompose(task) ==
    Compose([src_path |-> Path(ParentOf(task.src_path), NameOf(task.src_path)),
             dst_path |-> task.dst_path],
            task.src_file)

\* variant: done counts every task taken
NextDone_every(count, raised) == count + 1

\* done += 1 stands after the compose call, inside the try
NextDone(count, raised) == IF raised THEN count ELSE count + 1

\* self.progress.emit(done, total, message): the saved path, or the base name
\* of the source and the text of the exception
Progress(task, count, r) ==
    [sig |-> "progress", task |-> task, done |-> count, total |-> Len(worker_tasks),
     msg |-> IF r.raised
             THEN [text |-> r.msg.text,
                   names |-> r.msg.names \cup {NameOf(worker_tasks[task].src_path)}]
             ELSE [text |-> "saved", names |-> {worker_tasks[task].dst_path}]]

\* self.finished_signal.emit()
Finished ==
    [sig |-> "finished", task |-> 0, done |-> 0, total |-> 0, msg |-> NoMessage]

exportRest == <<batchVars, allocs, composeVars, renderVars, templateVars>>

InitExport ==
    /\ BatchIdle
    /\ ComposeIdle
    /\ RenderIdle
    /\ TemplateIdle
    /\ GuiIdle
    /\ allocs = <<>>
    /\ fs = {}
    /\ \E n \in 0..MaxExportTasks, kinds \in [1..MaxExportTasks -> SourceKinds] :
          worker_tasks = [t \in 1..n |-> WorkerTask(t, kinds[t])]
    /\ run_pc = "loop"
    /\ run_i = 0
    /\ done = 0
    /\ signals = <<>>

\* one turn of the for loop: compose, then the progress signal of the task
RunTask ==
    /\ run_pc = "loop"
    /\ run_i < Len(worker_tasks)
    /\ LET r == RunCompose(worker_tasks[run_i + 1]) IN
          /\ fs' = fs \cup r.written
          /\ done' = NextDone(done, r.raised)
          /\ signals' = Append(signals, Progress(run_i + 1, NextDone(done, r.raised), r))
    /\ run_i' = run_i + 1
    /\ UNCHANGED <<worker_tasks, run_pc, guiVars, exportRest>>

\* the loop is over: finished_signal, and run returns
RunFinish ==
    /\ run_pc = "loop"
    /\ run_i = Len(worker_tasks)
    /\ signals' = Append(signals, Finished)
    /\ run_pc' = "done"
    /\ UNCHANGED <<worker_tasks, run_i, done, fs, guiVars, exportRest>>

NextExport ==
    \/ RunTask
    \/ RunFinish

SpecExport == InitExport /\ [][NextExport]_vars

\* ------------------------------------------------- MainWindow: the export
MaxExports == 2

\* the one image of the list, in folder /p
ImagePath == <<"/", "p", "/", "a", ".", "p", "n", "g">>

\* the folders the directory dialog can return: the image's folder, a folder
\* inside it, a folder elsewhere, and the link to the image's folder
OutputDirs ==
    {<<"/", "p">>, <<"/", "p", "/", "o">>, <<"/", "e">>, <<"/", "l">>}

\* what the export widgets hold, and what the image file holds by now
UiStates ==
    [prefix : {<<>>, <<".", ".", "/">>}, suffix : {<<>>, <<"_", "w">>},
     fmt : {"png", "jpeg"}, src_file : SourceKinds]

\* src_ext
ExtOf(fmt) == IF fmt = "png" THEN <<".", "p", "n", "g">> ELSE <<".", "j", "p", "g">>

\* os.path.exists: one of the files, each known by the path it was written
\* at, is at the place the path leads to
Exists(files, str) == \E f \in files : RealPath(f) = RealPath(str)

\* while os.path.exists(dst_path): the next numbered name
RECURSIVE FreeDst(_, _, _, _, _, _)
FreeDst(files, dir, stem, ext, idx, dst_path) ==
    IF Exists(files, dst_path)
    THEN FreeDst(files, dir, stem, ext, idx + 1,
                 OsJoin(dir, stem \o <<"_">> \o Str(idx) \o ext))
    ELSE dst_path

\* on_export up to the point where the worker is made: the guard that turns
\* the click away, or the exception of open_image_fix_orientation, or the task
on_export(index, dir, u, files) ==
    IF index = NoIndex THEN [outcome |-> "no_image"]
    ELSE IF dir = <<>> THEN [outcome |-> "no_output_dir"]
    ELSE IF Abspath(ParentOf(ImagePath)) = Abspath(dir) THEN [outcome |-> "same_dir"]
    ELSE IF u.src_file = "not_image" THEN [outcome |-> "raised"]
    ELSE LET stem == u.prefix \o Stem(NameOf(ImagePath)) \o u.suffix
             ext == ExtOf(u.fmt)
         IN  [outcome |-> "started",
              task |-> [src_path |-> ImagePath,
                        dst_path |-> FreeDst(files, dir, stem, ext, 1,
                                             OsJoin(dir, stem \o ext)),
                        src_file |-> u.src_file]]

\* the worker's finished_signal has not been handled yet
Exporting == run_pc = "loop" \/ (run_pc = "done" /\ handled < Len(signals))

guiRest == <<batchVars, allocs, composeVars, renderVars, templateVars>>

InitGui ==
    /\ BatchIdle
    /\ ComposeIdle
    /\ RenderIdle
    /\ TemplateIdle
    /\ ExportIdle
    /\ allocs = <<>>
    /\ fs = {ImagePath}
    /\ handled = 0
    /\ current_index = NoIndex
    /\ output_dir = <<>>
    /\ ui \in UiStates
    /\ export_btn = TRUE
    /\ clicked = "none"
    /\ exports = <<>>

\* on_thumb_clicked
ThumbClicked ==
    /\ ui # <<>>
    /\ current_index = NoIndex
    /\ current_index' = 0
    /\ UNCHANGED <<handled, output_dir, ui, export_btn, clicked, exports>>
    /\ UNCHANGED <<fs, exportVars, guiRest>>

\* select_output_dir
SelectOutputDir(d) ==
    /\ ui # <<>>
    /\ output_dir # d
    /\ output_dir' = d
    /\ UNCHANGED <<handled, current_index, ui, export_btn, clicked, exports>>
    /\ UNCHANGED <<fs, exportVars, guiRest>>

\* variant: any signal of the worker enables the button
HandleSignal_any ==
    /\ handled < Len(signals)
    /\ handled' = handled + 1
    /\ export_btn' = TRUE
    /\ UNCHANGED <<current_index, output_dir, ui, clicked, exports>>
    /\ UNCHANGED <<fs, exportVars, guiRest>>

\* a click on the export button, which only an enabled button gives
OnExport ==
    /\ ui # <<>>
    /\ export_btn
    /\ Len(exports) < MaxExports
    /\ LET r == on_export(current_index, output_dir, ui, fs) IN
          /\ clicked' = r.outcome
          /\ IF r.outcome = "started"
             THEN /\ export_btn' = FALSE
                  /\ exports' = Append(exports,
                                       [task |-> r.task, output_dir |-> output_dir,
                                        seen |-> fs])
                  /\ worker_tasks' = <<r.task>>
                  /\ run_pc' = "loop"
                  /\ run_i' = 0
                  /\ done' = 0
                  /\ signals' = <<>>
                  /\ handled' = 0
             ELSE UNCHANGED <<export_btn, exports, exportVars, handled>>
    /\ UNCHANGED <<current_index, output_dir, ui, fs, guiRest>>

\* the window's event loop delivers the next signal of the worker:
\* on_export_progress prints, on_export_finished enables the button
HandleSignal ==
    /\ handled < Len(signals)
    /\ handled' = handled + 1
    /\ export_btn' = IF signals[handled + 1].sig = "finished" THEN TRUE ELSE export_btn
    /\ UNCHANGED <<current_index, output_dir, ui, clicked, exports>>
    /\ UNCHANGED <<fs, exportVars, guiRest>>

NextGui ==
    \/ ThumbClicked
    \/ \E d \in OutputDirs : SelectOutputDir(d)
    \/ OnExport
    \/ RunTask
    \/ RunFinish
    \/ HandleSignal

SpecGui == InitGui /\ [][NextGui]_vars

\* the worker thread runs on and the event loop delivers what is queued
SpecGuiLive ==
    /\ SpecGui
    /\ WF_vars(RunTask)
    /\ WF_vars(RunFinish)
    /\ WF_vars(HandleSignal)

\* ------------------------------------------------------------- properties
Range(s) == {s[k] : k \in DOMAIN s}

\* the multiset of the elements of a sequence
BagOfSeq(s) == [x \in Range(s) |-> Cardinality({k \in DOMAIN s : s[k] = x})]

\* position of task t in a sequence of distinct task indices
PosIn(s, t) == CHOOSE k \in DOMAIN s : s[k] = t

Raises(t) == Compose(tasks[t], src_files[t]).raised
Failing == {t \in 1..N : Raises(t)}
Saved == {t \in 1..N : ~Raises(t)}

\* the pair a progress_callback invocation was given
PairOf(cb) == <<cb.success, cb.msg>>

\* C1: when batch_export returns, results holds exactly N (success, message)
\* pairs and progress_callback has been invoked exactly N times, for every
\* N >= 0, every max_workers >= 1 and whatever tasks failed.
C1_OneResultPerTask ==
    pc = "returned" =>
        /\ Len(results) = N
        /\ \A k \in 1..Len(results) :
              Len(results[k]) = 2 /\ results[k][1] \in BOOLEAN
        /\ progress_callback => Len(callbacks) = N

C1_Witness ==
    /\ pc = "returned"
    /\ N = MaxTasks
    /\ max_workers > 1
    /\ progress_callback
    /\ Failing # {}
    /\ Saved # {}

\* C2: a task whose compose raises yields (False, message of the error), a
\* task whose compose succeeds yields (True, ''), every task is run whatever
\* its siblings did, and no exception leaves batch_export.
C2_FailureIsolated ==
    /\ pc # "raised"
    /\ ~exc
    /\ \A k \in 1..Len(results) :
          results[k] = IF Raises(yielded[k])
                       THEN <<FALSE, Compose(tasks[yielded[k]],
                                             src_files[yielded[k]]).msg>>
                       ELSE <<TRUE, NoMessage>>
    /\ pc = "returned" =>
          /\ Range(yielded) = 1..N
          /\ Cardinality({k \in 1..Len(results) : ~results[k][1]})
                = Cardinality(Failing)
          /\ Cardinality({k \in 1..Len(results) : results[k] = <<TRUE, NoMessage>>})
                = Cardinality(Saved)

C2_Witness ==
    /\ pc = "returned"
    /\ Failing # {}
    /\ Saved # {}
    /\ \E k \in 1..Len(results) : ~results[k][1]
    /\ \E k \in 1..Len(results) : results[k][1]

\* C3: when batch_export has returned, every future is finished, no task is
\* queued or in flight, and every worker thread that was started has returned.
C3_ReturnsAfterTeardown ==
    pc = "returned" =>
        /\ \A t \in 1..N : futures[t] = "finished"
        /\ \A k \in 1..Len(work_queue) : work_queue[k] = 0
        /\ Running = {}
        /\ exited = num_threads

C3_Witness ==
    /\ pc = "returned"
    /\ N = MaxTasks
    /\ num_threads >= 2
    /\ exited = num_threads

\* C4: at most one progress_callback invocation is in progress at any time.
C4_CallbacksNeverOverlap == cb_active <= 1

C4_Witness ==
    /\ cb_active = 1
    /\ Len(callbacks) >= 2
    /\ max_workers >= 2

\* C5: the k-th progress_callback invocation receives completed = k and
\* total = N, for failed and for successful jobs alike, and by the time
\* batch_export returns there have been N invocations.
C5_CompletedCountsEveryJob ==
    /\ \A k \in 1..Len(callbacks) :
          callbacks[k].completed = k /\ callbacks[k].total = N
    /\ (pc = "returned" /\ progress_callback) => Len(callbacks) = N

C5_Witness ==
    /\ pc = "returned"
    /\ Len(callbacks) = MaxTasks
    /\ ~callbacks[1].success
    /\ callbacks[MaxTasks].completed = MaxTasks

\* C6: a call with max_workers = 1 and a call with max_workers =
\* ConcurrentWorkers on the same task list and the same source files return the
\* same multiset of results and make the same number of progress callbacks.
C6_SameOutcomeAtAnyConcurrency ==
    (call = 2 /\ pc = "returned") =>
        /\ BagOfSeq(results) = BagOfSeq(first.results)
        /\ Len(callbacks) = first.callbacks

C6_Witness ==
    /\ call = 2
    /\ pc = "returned"
    /\ max_workers = ConcurrentWorkers
    /\ num_threads >= 2
    /\ N = MaxTasks
    /\ progress_callback
    /\ results # first.results

\* C7 as stated: the i-th element of the returned list is the result of the
\* i-th task to complete, and the pair the i-th callback invocation was given.
C7_ResultsInCompletionOrder ==
    pc = "returned" =>
        \A k \in 1..Len(results) :
            /\ results[k] = <<outcome[completed[k]].success,
                              outcome[completed[k]].msg>>
            /\ progress_callback => results[k] = PairOf(callbacks[k])

\* C7 amended: the i-th element of the list is the result of the i-th future
\* as_completed yielded and the pair the i-th callback invocation was given;
\* the futures that were finished when the iteration began are yielded first,
\* the others after them in the order they finished.
C7_ResultsInYieldOrder ==
    /\ \A k \in 1..Len(results) :
          /\ results[k] = <<outcome[yielded[k]].success, outcome[yielded[k]].msg>>
          /\ progress_callback => results[k] = PairOf(callbacks[k])
    /\ \A a, b \in 1..Len(yielded) :
          a < b =>
             /\ yielded[b] \in early => yielded[a] \in early
             /\ (yielded[a] \notin early /\ yielded[b] \notin early)
                   => PosIn(completed, yielded[a]) < PosIn(completed, yielded[b])

C7_Witness ==
    /\ pc = "returned"
    /\ progress_callback
    /\ Len(results) >= 2
    /\ results[1] # results[2]
    /\ yielded # completed

\* C8: the message of a failed result names the base name of the source file
\* of the job that failed.
C8_FailureNamesSource ==
    \A k \in 1..Len(results) :
        ~results[k][1] =>
            Basename(tasks[yielded[k]].src_path) \in results[k][2].names

\* the candidate names of an allocation: unsuffixed, and numbered n
Unsuffixed(a) ==
    Path(a.out_dir,
         a.prefix \o Stem(a.src_path.name) \o a.suffix \o Suffix(a.src_path.name))
Numbered(a, n) ==
    Path(a.out_dir,
         a.prefix \o Stem(a.src_path.name) \o a.suffix \o <<"_">> \o Str(n)
            \o Suffix(a.src_path.name))

\* C9: the path ensure_output_path returns does not exist when it is called;
\* it is the unsuffixed candidate when that is free, else the numbered
\* candidate with the smallest free number >= 1; and the call leaves the
\* directory as it was.
C9_AllocatedPathIsFree ==
    /\ [](\A k \in 1..Len(allocs) :
            LET a == allocs[k] IN
            /\ a.dst_path \notin a.seen
            /\ Unsuffixed(a) \notin a.seen => a.dst_path = Unsuffixed(a) /\ a.n = 0
            /\ Unsuffixed(a) \in a.seen =>
                  /\ a.n >= 1
                  /\ a.dst_path = Numbered(a, a.n)
                  /\ \A m \in 1..(a.n - 1) : Numbered(a, m) \in a.seen)
    /\ [][Len(allocs') > Len(allocs) => fs' = fs]_vars

C9_Witness ==
    \E k \in 1..Len(allocs) :
        /\ allocs[k].n = MaxExisting + 1
        /\ allocs[k].prefix = <<>>
        /\ Numbered(allocs[k], 1) \in allocs[k].seen
        /\ allocs[k].dst_path \notin allocs[k].seen

SameArguments(a, b) ==
    /\ a.src_path = b.src_path
    /\ a.out_dir = b.out_dir
    /\ a.prefix = b.prefix
    /\ a.suffix = b.suffix

\* C10 as stated: of two allocations made one after the other with the same
\* arguments, the unsuffixed path existing, the second returns another path,
\* with a larger number.
C10_SecondAllocationDiffers ==
    \A k \in 1..(Len(allocs) - 1) :
        (SameArguments(allocs[k], allocs[k + 1])
            /\ Unsuffixed(allocs[k]) \in allocs[k].seen)
        => /\ allocs[k + 1].dst_path # allocs[k].dst_path
           /\ allocs[k + 1].n > allocs[k].n

\* C10 amended: of two such allocations the second returns a path with a
\* larger number when the file of the first has been created in between, and
\* the same path when it has not.
C10_SecondDiffersOnceFirstIsWritten ==
    \A k \in 1..(Len(allocs) - 1) :
        (SameArguments(allocs[k], allocs[k + 1])
            /\ Unsuffixed(allocs[k]) \in allocs[k].seen)
        => IF allocs[k].dst_path \in allocs[k + 1].seen
           THEN /\ allocs[k + 1].n > allocs[k].n
                /\ allocs[k + 1].dst_path # allocs[k].dst_path
           ELSE allocs[k + 1].dst_path = allocs[k].dst_path

C10_Witness ==
    /\ Len(allocs) >= 2
    /\ SameArguments(allocs[1], allocs[2])
    /\ Unsuffixed(allocs[1]) \in allocs[1].seen
    /\ allocs[1].dst_path \in allocs[2].seen
    /\ allocs[1].n >= 2
    /\ allocs[2].n > allocs[1].n

\* C11: allocation and file creation are not atomic. Of two jobs with
\* colliding base names that both allocate with no file saved in between, the
\* second is given the path of the first; a save never refuses an existing
\* file, so the directory holds the files that were there first plus one file
\* per distinct path of the saved jobs, and a job that found its path taken
\* has overwritten the output of another saved job.
C11_UnreservedPathIsSharedAndOverwritten ==
    /\ \A j, k \in 1..Len(allocs) :
          (j < k /\ Unsuffixed(allocs[j]) = Unsuffixed(allocs[k])
                 /\ allocs[j].writes = allocs[k].writes)
          => allocs[k].dst_path = allocs[j].dst_path
    /\ Len(allocs) > 0 =>
          fs = allocs[1].seen
                 \cup {allocs[k].dst_path : k \in {m \in 1..Len(allocs) : allocs[m].written}}
    /\ \A k \in 1..Len(allocs) :
          allocs[k].overwrote =>
              \E j \in 1..Len(allocs) :
                  /\ j # k
                  /\ allocs[j].written
                  /\ ~allocs[j].overwrote
                  /\ allocs[j].dst_path = allocs[k].dst_path

\* two saved jobs have left one file
C11_Witness ==
    \E j, k \in 1..Len(allocs) :
        /\ j < k
        /\ allocs[j].written /\ allocs[k].written
        /\ allocs[j].dst_path = allocs[k].dst_path
        /\ allocs[j].overwrote \/ allocs[k].overwrote
        /\ Cardinality(fs \ allocs[1].seen) = 1

Abs(n) == IF n < 0 THEN -n ELSE n

\* c is the integer part of n / d (d > 0), the fraction dropped towards zero
IsTruncOf(c, n, d) ==
    /\ c * n >= 0
    /\ Abs(c) * d <= Abs(n)
    /\ Abs(n) < (Abs(c) + 1) * d

\* the calls that decoded their source
Placed == {k \in 1..Len(composed) : composed[k].seen.kind = "image"}
SizeFor(k) ==
    IF request.resize_to # <<>> THEN request.resize_to ELSE composed[k].seen.size

\* C12: every call on a decodable source succeeds and puts the layer's
\* top-left at (trunc(fx * W) - floor(ww / 2), trunc(fy * H) - floor(wh / 2)),
\* (W, H) the source size after the optional resize, trunc towards zero; the
\* corner is used as computed, inside the image or not.
C12_TopLeftIsTruncatedCentreMinusHalf ==
    \A k \in Placed :
        LET c == composed[k]
            W == SizeFor(k)[1]
            H == SizeFor(k)[2]
        IN  /\ ~c.raised
            /\ c.wrote = {request.dst_path}
            /\ request.dst_path \in fs
            /\ c.size = <<W, H>>
            /\ IsTruncOf(c.left + layer.size[1] \div 2, request.anchor[1] * W, AnchorDen)
            /\ IsTruncOf(c.top + layer.size[2] \div 2, request.anchor[2] * H, AnchorDen)

\* an anchor within [0,1], the layer hanging out to the left and below, saved
C12_Witness ==
    \E k \in Placed :
        /\ request.anchor[1] \in 0..AnchorDen
        /\ request.anchor[2] \in 0..AnchorDen
        /\ request.resize_to # <<>>
        /\ composed[k].left < 0
        /\ composed[k].top + layer.size[2] > composed[k].size[2]
        /\ ~composed[k].raised
        /\ request.dst_path \in fs

Centred == request.anchor = <<AnchorHalf, AnchorHalf>>

\* C13 as stated: at anchor (0.5, 0.5) the centre of the layer is exactly
\* (W / 2, H / 2), whatever the sizes.
C13_CentreIsExact ==
    \A k \in Placed :
        Centred =>
            /\ 2 * composed[k].left + layer.size[1] = composed[k].size[1]
            /\ 2 * composed[k].top + layer.size[2] = composed[k].size[2]

\* C13 amended: at anchor (0.5, 0.5) the layer's centre pixel is the image's
\* centre pixel (floor(W / 2), floor(H / 2)); the layer's centre is exactly
\* (W / 2, H / 2) when layer and image sizes have the same parity and half a
\* pixel off on an axis where they differ; and every repeated call places the
\* layer where the first did.
C13_CentrePixelAndRepeatable ==
    /\ \A k \in Placed :
          Centred =>
            LET c == composed[k] IN
            /\ c.left + layer.size[1] \div 2 = c.size[1] \div 2
            /\ c.top + layer.size[2] \div 2 = c.size[2] \div 2
            /\ Abs(2 * c.left + layer.size[1] - c.size[1])
                  = (IF layer.size[1] % 2 = c.size[1] % 2 THEN 0 ELSE 1)
            /\ Abs(2 * c.top + layer.size[2] - c.size[2])
                  = (IF layer.size[2] % 2 = c.size[2] % 2 THEN 0 ELSE 1)
    /\ \A j, k \in Placed :
          /\ composed[j].left = composed[k].left
          /\ composed[j].top = composed[k].top
          /\ composed[j].size = composed[k].size

\* the request repeated at the centre anchor on the file it has itself
\* written, sizes of different parity on one axis and equal parity on the other
C13_Witness ==
    /\ Centred
    /\ Len(composed) >= 2
    /\ Placed = 1..Len(composed)
    /\ request.dst_path = SrcPath
    /\ layer.size[1] % 2 # composed[2].size[1] % 2
    /\ layer.size[2] % 2 = composed[2].size[2] % 2
    /\ composed[2].left = composed[1].left

\* C14 as stated: an output_format that is neither PNG nor JPEG makes the call
\* fail and write no file; only png, jpeg and jpg, in any case, get a file
\* written.
C14_UnsupportedFormatFails ==
    \A k \in Placed :
        Lower(request.output_format) \notin (PngNames \cup JpegNames)
        => /\ composed[k].raised
           /\ composed[k].wrote = {}

\* str.strip()
RECURSIVE LStrip(_)
LStrip(str) ==
    IF str # <<>> /\ Head(str) \in Blank THEN LStrip(Tail(str)) ELSE str
RECURSIVE RStrip(_)
RStrip(str) ==
    IF str # <<>> /\ str[Len(str)] \in Blank
    THEN RStrip(SubSeq(str, 1, Len(str) - 1))
    ELSE str
Strip(str) == RStrip(LStrip(str))

\* C15 as stated: text that is empty after trimming makes the rendering fail
\* and return no layer; a layer is returned only for text that is not.
C15_EmptyTextRaises ==
    Strip(style.text) = <<>> => rpc # "done"

\* round(n / d), halves to the even neighbour
RoundHalfEven(n, d) ==
    LET q == n \div d
        r == n % d
    IN  IF 2 * r < d THEN q
        ELSE IF 2 * r > d THEN q + 1
        ELSE IF q % 2 = 0 THEN q ELSE q + 1

\* C17 as stated: the alpha of the glyph fill is round(255 * opacity), for
\* every opacity p / 100.
C17_AlphaIsRounded ==
    fill_color # -1 => fill_color = RoundHalfEven(Opaque * style.percent, MaxPercent)

\* positions in ops
OpsAt(op, target) == {n \in 1..Len(ops) : ops[n].op = op /\ ops[n].target = target}
GlyphDraws ==
    OpsAt("text", "canvas") \cup OpsAt("text", "temp_layer")
        \cup OpsAt("text", "bold_layer")
        \cup {n \in OpsAt("composite", "canvas") : ops[n].from = "temp_layer"}
ShadowOps == {n \in 1..Len(ops) : ops[n].target = "shadow_layer" \/ ops[n].from = "shadow_layer"}
Before(A, B) == \A a \in A, b \in B : a < b

\* C18: with shadow_blur > 0, once the shadow branch is passed the shadow layer
\* has been created, drawn on, blurred with that radius and put onto the
\* canvas, in this order, and every draw of the glyph comes after all of it;
\* with shadow_blur = 0 nothing is ever done with a shadow layer and nothing
\* is blurred.
C18_ShadowFirstOrNotAtAll ==
    /\ style.shadow_blur > 0 =>
          /\ Before(ShadowOps, GlyphDraws)
          /\ rpc \in {"glyph", "bold", "italic", "temp", "return", "done"} =>
                \E n \in 1..(Len(ops) - 3) :
                    /\ ops[n] = Op("new", "shadow_layer", 0)
                    /\ ops[n + 1].op = "text" /\ ops[n + 1].target = "shadow_layer"
                    /\ ops[n + 2] = Op("blur", "shadow_layer", style.shadow_blur)
                    /\ ops[n + 3] = Composite("canvas", "shadow_layer")
                    /\ ShadowOps = n..(n + 3)
          /\ rpc = "done" => GlyphDraws # {}
    /\ style.shadow_blur = 0 =>
          /\ ShadowOps = {}
          /\ \A n \in 1..Len(ops) : ops[n].op # "blur"

\* a bold italic text with a shadow returned: shadow first, glyph draws after
C18_Witness ==
    /\ rpc = "done"
    /\ style.shadow_blur > 0
    /\ style.bold /\ style.italic
    /\ ShadowOps # {}
    /\ Cardinality(GlyphDraws) > 9
    /\ Before(ShadowOps, GlyphDraws)

\* C16: in one batch_export call compose is invoked once for every task that
\* a worker has started and not at all for the others, each time by a pool
\* thread; when the call has returned it has been invoked exactly once for
\* every task, the failing ones included.
C16_ComposeOncePerTaskByWorker ==
    /\ \A t \in 1..N :
          /\ compose_calls[t]
                = (IF futures[t] \in {"running", "finished"} THEN <<"pool">> ELSE <<>>)
    /\ pc = "returned" => \A t \in 1..N : Len(compose_calls[t]) = 1

\* a batch returned with a failed and a saved task, one compose call each
C16_Witness ==
    /\ pc = "returned"
    /\ \E t \in Failing : compose_calls[t] = <<"pool">>
    /\ \E t \in Saved : compose_calls[t] = <<"pool">>

\* C19: once the manager is constructed, with the built-in template never
\* deleted, last_used is always the name of a template; and deleting the
\* built-in template in a state where it is the last used one would leave
\* last_used naming no template.
C19_LastUsedIsATemplate ==
    Constructed =>
        /\ last_used \in DOMAIN templates
        /\ DefaultName \in DOMAIN templates
        /\ last_used = DefaultName =>
              LET m == delete_template(Manager, DefaultName)
              IN  m.last_used \notin DOMAIN m.templates

\* the last used template has just been deleted, others remain
C19_Witness ==
    /\ Constructed
    /\ last_call.op = "delete_template"
    /\ last_call.known
    /\ last_call.name \notin DOMAIN templates
    /\ last_used = DefaultName
    /\ Cardinality(DOMAIN templates) >= 2

\* C20: once the manager is constructed the file holds what json.dump writes
\* for the templates and last_used in memory; and a load_template or
\* delete_template of a name that is no template changes neither templates,
\* last_used nor the file, load_template returning None.
C20_FileMirrorsMemory ==
    /\ [](Constructed => template_file = JsonDump(Manager))
    /\ [][(/\ Constructed
           /\ last_call'.op \in {"load_template", "delete_template"}
           /\ last_call'.name \notin DOMAIN templates)
          => /\ templates' = templates
             /\ last_used' = last_used
             /\ template_file' = template_file
             /\ ~last_call'.known
             /\ last_call'.ret = {}]_vars

\* load_template of an unknown name has returned None, a template with a
\* tuple colour being in memory and written as a list
C20_Witness ==
    /\ Constructed
    /\ last_call.op = "load_template"
    /\ ~last_call.known
    /\ last_call.ret = {}
    /\ \E n \in DOMAIN templates :
          /\ templates[n].color.kind = "tuple"
          /\ template_file.templates[n].color.kind = "list"
    /\ template_file = JsonDump(Manager)

\* the tasks among the first k whose compose call does not raise
Successes(k) == {t \in 1..k : ~RunCompose(worker_tasks[t]).raised}

\* C21: run takes the tasks in the order of the list, a failing one not
\* stopping it; the k-th signal is the progress signal of task k, carrying the
\* number of successes among tasks 1..k (so the value before it when task k
\* failed) and the length of the list; finished_signal is emitted once, after
\* the progress signal of the last task, whether tasks failed or not.
C21_OneProgressPerTaskThenFinished ==
    /\ \A k \in 1..run_i :
          /\ signals[k].sig = "progress"
          /\ signals[k].task = k
          /\ signals[k].total = Len(worker_tasks)
          /\ signals[k].done = Cardinality(Successes(k))
          /\ RunCompose(worker_tasks[k]).raised =>
                signals[k].done = (IF k = 1 THEN 0 ELSE signals[k - 1].done)
    /\ done = Cardinality(Successes(run_i))
    /\ IF run_pc = "done"
       THEN /\ run_i = Len(worker_tasks)
            /\ Len(signals) = run_i + 1
            /\ signals[run_i + 1] = Finished
       ELSE Len(signals) = run_i

\* a list whose first task fails and whose last is saved has been run to the
\* end: the last done is below the number of tasks
C21_Witness ==
    /\ run_pc = "done"
    /\ Len(worker_tasks) = MaxExportTasks
    /\ RunCompose(worker_tasks[1]).raised
    /\ ~RunCompose(worker_tasks[MaxExportTasks]).raised
    /\ signals[MaxExportTasks].done = Cardinality(Successes(MaxExportTasks))
    /\ signals[MaxExportTasks].done < MaxExportTasks
    /\ signals[Len(signals)] = Finished

\* C22: the export button is enabled exactly when no worker is at work or
\* waiting for its finished_signal to be handled; on_export starts a worker
\* only in such a state and disables the button in the same step; an
\* on_export that ends otherwise leaves button and worker as they were; and a
\* disabled button is enabled again later on.
C22_OneWorkerAtATime ==
    /\ [](export_btn = ~Exporting)
    /\ [][Len(exports') > Len(exports)
            => /\ ~Exporting
               /\ export_btn
               /\ ~export_btn'
               /\ run_pc' = "loop"
               /\ clicked' = "started"]_vars
    /\ [][(clicked' # clicked /\ clicked' # "started")
            => /\ export_btn'
               /\ exports' = exports
               /\ UNCHANGED exportVars]_vars
    /\ (~export_btn ~> export_btn)

\* a further worker is at work, started after an earlier one was done with,
\* and the button is disabled
C22_Witness ==
    /\ Len(exports) >= 2
    /\ run_pc = "loop"
    /\ ~export_btn

\* the folder of a file, from the place the file is at
FolderOf(place) == SubSeq(place, 1, Len(place) - 1)
SourceFolder == FolderOf(RealPath(ImagePath))

\* the names on_export tries for an export, in order: number 0 the plain one
Candidate(e, n) ==
    LET stem == ui.prefix \o Stem(NameOf(ImagePath)) \o ui.suffix IN
    OsJoin(e.output_dir,
           IF n = 0 THEN stem \o ExtOf(ui.fmt)
           ELSE stem \o <<"_">> \o Str(n) \o ExtOf(ui.fmt))

\* C23 as stated: a worker is started only with an image selected and an
\* output folder chosen that is not the image's folder; the file it is to
\* write is not in the image's folder, did not exist when its path was chosen,
\* and has the plain name or else the smallest free number.
C23_NeverIntoSourceFolderNorOverExisting ==
    \A k \in 1..Len(exports) :
        LET e == exports[k] IN
        /\ current_index # NoIndex
        /\ e.output_dir # <<>>
        /\ RealPath(e.output_dir) # SourceFolder
        /\ FolderOf(RealPath(e.task.dst_path)) # SourceFolder
        /\ ~Exists(e.seen, e.task.dst_path)
        /\ \E n \in 0..MaxExports :
              /\ e.task.dst_path = Candidate(e, n)
              /\ \A m \in 0..(n - 1) : Exists(e.seen, Candidate(e, m))

====
